---- MODULE Spec2Model ----
(***************************************************************************)
(* Replacement policies of the Cache library: LRUCache, LRUKCache,         *)
(* LFUCache (with aging) and ARCCache.  One cache instance is modelled per *)
(* behaviour; `policy` says which class was constructed.  Every action is  *)
(* one whole public method call.                                           *)
(***************************************************************************)
EXTENDS Integers, Sequences, FiniteSets, TLC

\* ------------------------------------------------------------------ bounds
NumKeys == 3
NumValues == 2
MaxCapacity == 2
MaxAverageBound == 2
MaxTotal == 6
MaxK == 3
MaxAccess == 3
MaxThreshold == 2
ARCNumValues == 1
ARCValuesCapacity == 1
MaxSliceNum == 2
MaxHashCapacity == 2
MaxHashValue == 1
HashMaxTotal == 3
NumThreads == 2
NumThreadKeys == 2
ThreadMaxTotal == 4
MaxNodes == 4
ARCValuesMaxNodes == 3

\* ------------------------------------------------------- program constants
\* Value{} : the default-constructed value returned by get(Key) on a miss
DefaultValue == 0
\* INT8_MAX, the initial / sentinel value of LFUCache::minFreq_
INT8_MAX == 127

Keys == 1..NumKeys
Values == 1..NumValues
NoKey == CHOOSE k \in 0..NumKeys : k \notin Keys

\* capacities a cache is constructed with: negative, zero and positive ones
Capacities == (0 - 1)..MaxCapacity
MaxAverageNums == 1..MaxAverageBound

VARIABLES
    policy,     \* which class this instance is: "LRU", "LFU", "LRUK", "ARC"
    lru,        \* the LRUCache object
    lfu,        \* the LFUCache object
    lruk,       \* the LRUKCache object
    arc,        \* the ARCCache object
    op,         \* the last completed call and what it returned
    touched,    \* history: keys in the order of their last put / successful get
    fresh,      \* history: [key, value] of the last put while every call since was on that key
    removed,    \* history: LRUCache::remove has been called
    lastPut,    \* history: key -> the value of the latest put(key, .) (ARC)
    run,        \* history: [key, n], the last n calls were get(key) and key was in
                \* neither the main cache nor the history before the first of them
    hash,       \* the HashLRUCaches / HashLRUCache (sharded) object
    pc,         \* thread -> where the thread is in its call on the shared cache
    call,       \* thread -> the call the thread is making, its locals and results
    mutex_,     \* the threads holding mutex_ of the shared cache ({} : unlocked)
    serial,     \* history: the LRUCache reached by running the calls one at a
                \* time, each at the moment it acquired mutex_
    raced,      \* two threads accessed the shared cache at once (a data race)
    ghostHit,   \* history: where checkGhostCaches of the last ARCCache call found
                \* its key: "B1", "B2" or "none"
    completed   \* history: key -> [n, kept]: n calls of the LRUKCache threads on
                \* the key have returned; kept: its history entry was never
                \* evicted or removed

concurrent == <<pc, call, mutex_, serial, raced>>
vars == <<policy, lru, lfu, lruk, arc, op, touched, fresh, removed, lastPut, run,
          hash, concurrent, ghostHit, completed>>

\* ----------------------------------------------------------------- helpers
EmptyMap == [x \in {} |-> 0]
MapPut(f, k, v) == [x \in DOMAIN f \cup {k} |-> IF x = k THEN v ELSE f[x]]
MapErase(f, k) == [x \in DOMAIN f \ {k} |-> f[x]]
SeqRemove(s, k) == SelectSeq(s, LAMBDA x : x # k)
SeqSet(s) == {s[i] : i \in 1..Len(s)}
Touch(s, k) == Append(SeqRemove(s, k), k)
\* the last n elements of s (all of s when it is shorter)
LastN(s, n) == IF Len(s) <= n THEN SeqSet(s) ELSE {s[i] : i \in (Len(s) - n + 1)..Len(s)}
Perms(S) == {s \in [1..Cardinality(S) -> S] : \A i, j \in 1..Cardinality(S) : s[i] = s[j] => i = j}
SetMin(S) == CHOOSE m \in S : \A x \in S : m <= x
\* size_t >= int : the int is converted to size_t, so a negative int is
\* larger than every container size
SizeGE(size, n) == IF n < 0 THEN FALSE ELSE size >= n
\* size_t == int, same conversion
SizeEQ(size, n) == IF n < 0 THEN FALSE ELSE size = n

NoOp == [name |-> "init", key |-> NoKey, value |-> DefaultValue, hit |-> FALSE, out |-> DefaultValue]
OpPut(k, v) == [name |-> "put", key |-> k, value |-> v, hit |-> FALSE, out |-> DefaultValue]
OpGet(k, h, o) == [name |-> "get", key |-> k, value |-> DefaultValue, hit |-> h, out |-> o]
NoFresh == [key |-> NoKey, value |-> DefaultValue]
FreshAfterGet(f, k) == IF f.key = k THEN f ELSE NoFresh
OpOther(n, k) == [name |-> n, key |-> k, value |-> DefaultValue, hit |-> FALSE, out |-> DefaultValue]

\* =================================================================== LRU
\* An LRUCache object: capacity_, nodeMap_ (key -> the node's value_) and the
\* list between dummyHead_ and dummyTail_ (keys of the nodes, head first).
LRUCacheNew(capacity) == [capacity_ |-> capacity, nodeMap_ |-> EmptyMap, list |-> <<>>]

removeNode(c, k) == [c EXCEPT !.list = SeqRemove(c.list, k)]

insertNode(c, k) == [c EXCEPT !.list = Append(c.list, k)]

moveToMostRecent(c, k) == insertNode(removeNode(c, k), k)

updateExistingNode(c, k, v) == moveToMostRecent([c EXCEPT !.nodeMap_[k] = v], k)

evictMostRecent(c) ==
    LET victim == c.list[Len(c.list)]
    IN  [removeNode(c, victim) EXCEPT !.nodeMap_ = MapErase(c.nodeMap_, victim)]

\* dummyHead_->next_ is a real node whenever this is called (the map is
\* non-empty): Head fails otherwise
evictLeastRecent(c) ==
    LET leastRecent == Head(c.list)
    IN  [removeNode(c, leastRecent) EXCEPT !.nodeMap_ = MapErase(c.nodeMap_, leastRecent)]

addNewNode(c, k, v) ==
    LET c1 == IF SizeGE(Cardinality(DOMAIN c.nodeMap_), c.capacity_)
              THEN evictLeastRecent(c) ELSE c
    IN  insertNode([c1 EXCEPT !.nodeMap_ = MapPut(c1.nodeMap_, k, v)], k)

LRUPutKeepsValue(c, k, v) ==
    IF c.capacity_ <= 0 THEN c
    ELSE IF k \in DOMAIN c.nodeMap_ THEN moveToMostRecent(c, k)
    ELSE addNewNode(c, k, v)

LRUPut(c, k, v) ==
    IF c.capacity_ <= 0 THEN c
    ELSE IF k \in DOMAIN c.nodeMap_ THEN updateExistingNode(c, k, v)
    ELSE addNewNode(c, k, v)

\* bool get(Key, Value&): the new object, the result and the out value
\* (the out parameter keeps the caller's Value{} on a miss)
LRUGetEvictsOnMiss(c, k) ==
    IF k \in DOMAIN c.nodeMap_
    THEN [c |-> moveToMostRecent(c, k), hit |-> TRUE, out |-> c.nodeMap_[k]]
    ELSE [c |-> IF c.list # <<>> THEN evictLeastRecent(c) ELSE c,
          hit |-> FALSE, out |-> DefaultValue]

LRUGet(c, k) ==
    IF k \in DOMAIN c.nodeMap_
    THEN [c |-> moveToMostRecent(c, k), hit |-> TRUE, out |-> c.nodeMap_[k]]
    ELSE [c |-> c, hit |-> FALSE, out |-> DefaultValue]

LRURemove(c, k) ==
    IF k \in DOMAIN c.nodeMap_
    THEN [removeNode(c, k) EXCEPT !.nodeMap_ = MapErase(c.nodeMap_, k)]
    ELSE c

\* ================================================================= LRU-K
\* An LRUKCache object: the LRUCache base object (main), historyList_ (an
\* LRUCache from key to access count) and k_.
LRUKCacheNew(capacity, historyCapacity, k) ==
    [main |-> LRUCacheNew(capacity), historyList_ |-> LRUCacheNew(historyCapacity), k_ |-> k]

\* lines 195-197 and 212-213: historyCount = historyList_->get(key);
\* historyList_->put(key, ++historyCount)
LRUKCount(c, k) ==
    LET g == LRUGet(c.historyList_, k)
        historyCount == g.out + 1
    IN  [c |-> [c EXCEPT !.historyList_ = LRUPut(g.c, k, historyCount)],
         historyCount |-> historyCount]

LRUKGetAdmits(c, k) ==
    LET h == LRUKCount(c, k)
        c1 == IF h.historyCount >= c.k_
              THEN [h.c EXCEPT !.main = LRUPut(h.c.main, k, 1)] ELSE h.c
        g == LRUGet(c1.main, k)
    IN  [c |-> [c1 EXCEPT !.main = g.c], hit |-> g.hit, out |-> g.out]

\* Value get(Key): `hit` is what the inner LRUCache::get found, the caller
\* sees `out` only
LRUKGet(c, k) ==
    LET h == LRUKCount(c, k)
        g == LRUGet(h.c.main, k)
    IN  [c |-> [h.c EXCEPT !.main = g.c], hit |-> g.hit, out |-> g.out]

LRUKPutAdmitsAtOnce(c, k, v) ==
    LET h == LRUKCount(c, k)
    IN  [h.c EXCEPT !.historyList_ = LRURemove(h.c.historyList_, k),
                    !.main = LRUPut(h.c.main, k, v)]

LRUKPut(c, k, v) ==
    LET g == LRUGet(c.main, k)
        \* LRUCache::get(key) != "" : a hit on a value other than Value{}
        c1 == IF g.out # DefaultValue
              THEN [c EXCEPT !.main = LRUPut(g.c, k, v)]
              ELSE [c EXCEPT !.main = g.c]
        h == LRUKCount(c1, k)
    IN  IF h.historyCount >= c.k_
        THEN [h.c EXCEPT !.historyList_ = LRURemove(h.c.historyList_, k),
                         !.main = LRUPut(h.c.main, k, v)]
        ELSE h.c

\* =================================================================== LFU
\* An LFUCache object.  nodeMap_ : key -> the node's [value, freq];
\* freqToFreqList_ : freq -> the FreqList of that frequency, as the keys of
\* its nodes from head_ to tail_.
LFUCacheNew(capacity, maxAverageNum) ==
    [capacity_ |-> capacity, minFreq_ |-> INT8_MAX, maxAverageNum_ |-> maxAverageNum,
     curAverageNum_ |-> 0, curTotalNum_ |-> 0,
     nodeMap_ |-> EmptyMap, freqToFreqList_ |-> EmptyMap]

removeFromFreqList(c, k) ==
    LET freq == c.nodeMap_[k].freq
    IN  [c EXCEPT !.freqToFreqList_[freq] = SeqRemove(@, k)]

addToFreqList(c, k) ==
    LET freq == c.nodeMap_[k].freq
        lists == IF freq \in DOMAIN c.freqToFreqList_ THEN c.freqToFreqList_
                 ELSE MapPut(c.freqToFreqList_, freq, <<>>)
    IN  [c EXCEPT !.freqToFreqList_ = [lists EXCEPT ![freq] = Append(@, k)]]

updateMinFreqStale(c) == c

updateMinFreq(c) ==
    LET nonEmpty == {f \in DOMAIN c.freqToFreqList_ : c.freqToFreqList_[f] # <<>>}
        m == SetMin(nonEmpty \cup {INT8_MAX})
    IN  [c EXCEPT !.minFreq_ = IF m = INT8_MAX THEN 1 ELSE m]

\* one iteration of the loop of handleOverMaxAverageNum
AgeNode(c, k) ==
    LET c1 == removeFromFreqList(c, k)
        f == c1.nodeMap_[k].freq - (c1.maxAverageNum_ \div 2)
        c2 == [c1 EXCEPT !.nodeMap_[k].freq = IF f < 1 THEN 1 ELSE f]
    IN  addToFreqList(c2, k)

RECURSIVE AgeLoop(_, _)
AgeLoop(c, order) ==
    IF order = <<>> THEN c ELSE AgeLoop(AgeNode(c, Head(order)), Tail(order))

\* order: keys in the order in which the unordered_map nodeMap_ iterates
\* them; the loop visits the keys that are in the map
handleOverMaxAverageNum(c, order) ==
    IF DOMAIN c.nodeMap_ = {} THEN c
    ELSE updateMinFreq(AgeLoop(c, SelectSeq(order, LAMBDA k : k \in DOMAIN c.nodeMap_)))

Average(c) ==
    IF DOMAIN c.nodeMap_ = {} THEN 0
    ELSE c.curTotalNum_ \div Cardinality(DOMAIN c.nodeMap_)

addFreqNum(c, order) ==
    LET c1 == [c EXCEPT !.curTotalNum_ = @ + 1]
        c2 == [c1 EXCEPT !.curAverageNum_ = Average(c1)]
    IN  IF c2.curAverageNum_ > c2.maxAverageNum_
        THEN handleOverMaxAverageNum(c2, order) ELSE c2

decreaseFreqNum(c, num) ==
    LET c1 == [c EXCEPT !.curTotalNum_ = @ - num]
    IN  [c1 EXCEPT !.curAverageNum_ = Average(c1)]

getInternalNoBump(c, k, order) ==
    LET c1 == removeFromFreqList(c, k)
        c3 == addToFreqList(c1, k)
    IN  addFreqNum(c3, order)

getInternal(c, k, order) ==
    LET c1 == removeFromFreqList(c, k)
        c2 == [c1 EXCEPT !.nodeMap_[k].freq = @ + 1]
        c3 == addToFreqList(c2, k)
        f == c3.nodeMap_[k].freq
        c4 == IF f - 1 = c3.minFreq_ /\ c3.freqToFreqList_[f - 1] = <<>>
              THEN [c3 EXCEPT !.minFreq_ = @ + 1] ELSE c3
    IN  addFreqNum(c4, order)

kickOutNothing(c) == c

kickOutMostFrequent(c) ==
    LET nonEmpty == {f \in DOMAIN c.freqToFreqList_ : c.freqToFreqList_[f] # <<>>}
        top == CHOOSE f \in nonEmpty : \A g \in nonEmpty : g <= f
        k == Head(c.freqToFreqList_[top])
        c1 == removeFromFreqList(c, k)
        c2 == [c1 EXCEPT !.nodeMap_ = MapErase(c1.nodeMap_, k)]
    IN  decreaseFreqNum(c2, c.nodeMap_[k].freq)

\* freqToFreqList_[minFreq_] exists and is non-empty whenever this is called:
\* the function application and Head fail otherwise
kickOut(c) ==
    LET k == Head(c.freqToFreqList_[c.minFreq_])
        c1 == removeFromFreqList(c, k)
        c2 == [c1 EXCEPT !.nodeMap_ = MapErase(c1.nodeMap_, k)]
    IN  decreaseFreqNum(c2, c.nodeMap_[k].freq)

putInternal(c, k, v, order) ==
    LET c1 == IF SizeEQ(Cardinality(DOMAIN c.nodeMap_), c.capacity_) THEN kickOut(c) ELSE c
        c2 == [c1 EXCEPT !.nodeMap_ = MapPut(c1.nodeMap_, k, [value |-> v, freq |-> 1])]
        c3 == addToFreqList(c2, k)
        c4 == addFreqNum(c3, order)
    IN  [c4 EXCEPT !.minFreq_ = IF @ < 1 THEN @ ELSE 1]

LFUPut(c, k, v, order) ==
    IF c.capacity_ = 0 THEN c
    ELSE IF k \in DOMAIN c.nodeMap_
    THEN getInternal([c EXCEPT !.nodeMap_[k].value = v], k, order)
    ELSE putInternal(c, k, v, order)

LFUGet(c, k, order) ==
    IF k \in DOMAIN c.nodeMap_
    THEN [c |-> getInternal(c, k, order), hit |-> TRUE, out |-> c.nodeMap_[k].value]
    ELSE [c |-> c, hit |-> FALSE, out |-> DefaultValue]

LFUPurge(c) == [c EXCEPT !.nodeMap_ = EmptyMap, !.freqToFreqList_ = EmptyMap]

\* the orders in which the unordered_map nodeMap_ can iterate its keys during
\* a call on key k (k is in the map when the loop runs)
Orders(c, k) == Perms(DOMAIN c.nodeMap_ \cup {k})

\* =================================================================== ARC
\* An ARCLRUPart object.  mainList / ghostList : the nodes linked between
\* mainHead_ and mainTail_ / ghostHead_ and ghostTail_, head first.  A node is
\* [key, value, accessCount, held]; `held` says which map holds a pointer to
\* this very node ("main", "ghost", or "none": the node is only linked),
\* since several nodes of one key can be linked.  mainCache_ / ghostCache_ :
\* key -> the [value, accessCount] of the node the map points to.
\* ghostCapacity_ is never assigned: `full` stands for the outcome, during one
\* call, of the comparison ghostCache_.size() >= ghostCapacity_ on the
\* indeterminate value.
ARCLRUPartNew(capacity, transformThreshold) ==
    [capacity_ |-> capacity, transformThreshold_ |-> transformThreshold,
     mainCache_ |-> EmptyMap, ghostCache_ |-> EmptyMap,
     mainList |-> <<>>, ghostList |-> <<>>]

ARCNodeNew(k, v) == [key |-> k, value |-> v, accessCount |-> 1, held |-> "main"]
ARCData(node) == [value |-> node.value, accessCount |-> node.accessCount]
\* where the node that map h holds for key k is linked
ARCPos(c, k, h) ==
    CHOOSE i \in 1..Len(c.mainList) : c.mainList[i].key = k /\ c.mainList[i].held = h
\* the map h drops (or overwrites) its pointer for key k: the node it held
\* stays where it is linked
ARCRelease(list, k, h) ==
    [i \in 1..Len(list) |->
        IF list[i].key = k /\ list[i].held = h THEN [list[i] EXCEPT !.held = "none"]
        ELSE list[i]]

\* node->prev_->next_ = node->next_; node->next_->prev_ = node->prev_ :
\* unlinks the node (the i-th of the list it is linked in)
ARCUnlink(c, i) ==
    [c EXCEPT !.mainList = SubSeq(@, 1, i - 1) \o SubSeq(@, i + 1, Len(@))]

ARCLRU_removeFromMain(c, i) == ARCUnlink(c, i)

ARCLRU_removeFromGhost(c, i) == ARCUnlink(c, i)

ARCLRU_addToFront(c, node) == [c EXCEPT !.mainList = <<node>> \o @]

ARCLRU_moveToFront(c, i) == ARCLRU_addToFront(ARCUnlink(c, i), c.mainList[i])

\* links the (unlinked) node after mainHead_ (not ghostHead_) and records it
\* in ghostCache_
ARCLRU_addToGhost(c, node) ==
    LET ghost == [node EXCEPT !.accessCount = 1, !.held = "ghost"]
    IN  [c EXCEPT !.mainList = <<ghost>> \o ARCRelease(@, node.key, "ghost"),
                  !.ghostCache_ = MapPut(@, node.key, ARCData(ghost))]

ARCLRU_removeOldestGhost(c) ==
    IF c.ghostList = <<>> THEN c
    ELSE LET oldestGhost == c.ghostList[Len(c.ghostList)]
         IN  [c EXCEPT !.ghostList = SubSeq(@, 1, Len(@) - 1),
                       !.ghostCache_ = MapErase(@, oldestGhost.key)]

ARCLRU_evictLeastRecent(c, full) ==
    IF c.mainList = <<>> THEN c
    ELSE LET leastRecent == c.mainList[Len(c.mainList)]
             c1 == ARCLRU_removeFromMain(c, Len(c.mainList))
             c2 == IF full THEN ARCLRU_removeOldestGhost(c1) ELSE c1
             c3 == ARCLRU_addToGhost(c2, leastRecent)
         IN  \* mainCache_.erase(leastRecent->getKey())
             [c3 EXCEPT !.mainCache_ = MapErase(@, leastRecent.key),
                        !.mainList = ARCRelease(@, leastRecent.key, "main")]

ARCLRU_updateExistingNode(c, k, v) ==
    LET i == ARCPos(c, k, "main")
    IN  ARCLRU_moveToFront([c EXCEPT !.mainCache_[k].value = v, !.mainList[i].value = v], i)

ARCLRU_addNewNode(c, k, v, full) ==
    LET c1 == IF Cardinality(DOMAIN c.mainCache_) >= c.capacity_
              THEN ARCLRU_evictLeastRecent(c, full) ELSE c
        c2 == [c1 EXCEPT !.mainCache_ = MapPut(@, k, ARCData(ARCNodeNew(k, v)))]
    IN  ARCLRU_addToFront(c2, ARCNodeNew(k, v))

ARCLRU_updateNodeAccess(c, k) ==
    LET c1 == ARCLRU_moveToFront(c, ARCPos(c, k, "main"))
    IN  [c1 EXCEPT !.mainCache_[k].accessCount = @ + 1, !.mainList[1].accessCount = @ + 1]

\* bool put(Key, Value): the new object and the result
ARCLRU_put(c, k, v, full) ==
    IF c.capacity_ = 0 THEN [c |-> c, ok |-> FALSE]
    ELSE IF k \in DOMAIN c.mainCache_
    THEN [c |-> ARCLRU_updateExistingNode(c, k, v), ok |-> TRUE]
    ELSE [c |-> ARCLRU_addNewNode(c, k, v, full), ok |-> TRUE]

ARCLRU_get(c, k) ==
    IF k \in DOMAIN c.mainCache_
    THEN LET c1 == ARCLRU_updateNodeAccess(c, k)
         IN  [c |-> c1, hit |-> TRUE, out |-> c1.mainCache_[k].value,
              shouldTransform |-> c1.mainCache_[k].accessCount >= c1.transformThreshold_]
    ELSE [c |-> c, hit |-> FALSE, out |-> DefaultValue, shouldTransform |-> FALSE]

ARCLRU_checkGhost(c, k) ==
    IF k \in DOMAIN c.ghostCache_
    THEN [c |-> [ARCLRU_removeFromGhost(c, ARCPos(c, k, "ghost"))
                    EXCEPT !.ghostCache_ = MapErase(@, k)],
          found |-> TRUE]
    ELSE [c |-> c, found |-> FALSE]

ARCLRU_increaseCapacity(c) == [c EXCEPT !.capacity_ = @ + 1]

ARCLRU_decreaseCapacity(c, full) ==
    IF c.capacity_ <= 0 THEN [c |-> c, ok |-> FALSE]
    ELSE LET c1 == IF Cardinality(DOMAIN c.mainCache_) = c.capacity_
                   THEN ARCLRU_evictLeastRecent(c, full) ELSE c
         IN  [c |-> [c1 EXCEPT !.capacity_ = @ - 1], ok |-> TRUE]

\* An ARCLFUPart object (T2 / B2): index mainCache_ (key -> value), the real
\* list (MRU first), the ghost keys ghostList (newest first) and the bound
\* ghostCapacity_ of the ghost list.  The access counter of an entry decides
\* nothing in this half and is left out.
ARCLFUPartNew(capacity, transformThreshold) ==
    [capacity_ |-> capacity, ghostCapacity_ |-> capacity,
     mainCache_ |-> EmptyMap, mainList |-> <<>>, ghostList |-> <<>>]

ARCLFU_evict(c) ==
    IF c.mainList = <<>> THEN c
    ELSE LET victim == c.mainList[Len(c.mainList)]
             ghosts == IF Len(c.ghostList) >= c.ghostCapacity_ /\ c.ghostList # <<>>
                       THEN SubSeq(c.ghostList, 1, Len(c.ghostList) - 1)
                       ELSE c.ghostList
         IN  [c EXCEPT !.mainList = SeqRemove(@, victim),
                       !.mainCache_ = MapErase(@, victim),
                       !.ghostList = <<victim>> \o ghosts]

ARCLFU_put(c, k, v) ==
    IF c.capacity_ = 0 THEN [c |-> c, ok |-> FALSE]
    ELSE IF k \in DOMAIN c.mainCache_
    THEN [c |-> [c EXCEPT !.mainCache_[k] = v, !.mainList = <<k>> \o SeqRemove(@, k)],
          ok |-> TRUE]
    ELSE LET c1 == IF Cardinality(DOMAIN c.mainCache_) >= c.capacity_
                   THEN ARCLFU_evict(c) ELSE c
         IN  [c |-> [c1 EXCEPT !.mainCache_ = MapPut(@, k, v), !.mainList = <<k>> \o @],
              ok |-> TRUE]

ARCLFU_get(c, k) ==
    IF k \in DOMAIN c.mainCache_
    THEN [c |-> [c EXCEPT !.mainList = <<k>> \o SeqRemove(@, k)],
          hit |-> TRUE, out |-> c.mainCache_[k]]
    ELSE [c |-> c, hit |-> FALSE, out |-> DefaultValue]

ARCLFU_checkGhost(c, k) ==
    IF k \in SeqSet(c.ghostList)
    THEN [c |-> [c EXCEPT !.ghostList = SeqRemove(@, k)], found |-> TRUE]
    ELSE [c |-> c, found |-> FALSE]

ARCLFU_increaseCapacity(c) == [c EXCEPT !.capacity_ = @ + 1]

ARCLFU_decreaseCapacity(c) ==
    IF c.capacity_ <= 0 THEN [c |-> c, ok |-> FALSE]
    ELSE LET c1 == IF Cardinality(DOMAIN c.mainCache_) = c.capacity_
                   THEN ARCLFU_evict(c) ELSE c
         IN  [c |-> [c1 EXCEPT !.capacity_ = @ - 1], ok |-> TRUE]

\* An ARCCache object; both parts are constructed with the whole capacity.
ARCCacheNew(capacity, transformThreshold) ==
    [capacity_ |-> capacity, transformThreshold_ |-> transformThreshold,
     lruPart_ |-> ARCLRUPartNew(capacity, transformThreshold),
     lfuPart_ |-> ARCLFUPartNew(capacity, transformThreshold)]

checkGhostCachesAlwaysGrows(a, k, full) ==
    LET g1 == ARCLRU_checkGhost(a.lruPart_, k)
        g2 == ARCLFU_checkGhost(a.lfuPart_, k)
    IN  IF g1.found
        THEN [a |-> [a EXCEPT !.lfuPart_ = ARCLFU_decreaseCapacity(a.lfuPart_).c,
                              !.lruPart_ = ARCLRU_increaseCapacity(g1.c)],
              inGhost |-> TRUE]
        ELSE IF g2.found
        THEN [a |-> [a EXCEPT !.lruPart_ = ARCLRU_decreaseCapacity(a.lruPart_, full).c,
                              !.lfuPart_ = ARCLFU_increaseCapacity(g2.c)],
              inGhost |-> TRUE]
        ELSE [a |-> a, inGhost |-> FALSE]

\* bool checkGhostCaches(Key): the new object and the result
checkGhostCaches(a, k, full) ==
    LET g1 == ARCLRU_checkGhost(a.lruPart_, k)
        g2 == ARCLFU_checkGhost(a.lfuPart_, k)
    IN  IF g1.found
        THEN LET d == ARCLFU_decreaseCapacity(a.lfuPart_)
             IN  [a |-> [a EXCEPT !.lfuPart_ = d.c,
                                  !.lruPart_ = IF d.ok THEN ARCLRU_increaseCapacity(g1.c)
                                               ELSE g1.c],
                  inGhost |-> TRUE]
        ELSE IF g2.found
        THEN LET d == ARCLRU_decreaseCapacity(a.lruPart_, full)
             IN  [a |-> [a EXCEPT !.lruPart_ = d.c,
                                  !.lfuPart_ = IF d.ok THEN ARCLFU_increaseCapacity(g2.c)
                                               ELSE g2.c],
                  inGhost |-> TRUE]
        ELSE [a |-> a, inGhost |-> FALSE]

ARCPut(a, k, v, full) ==
    LET g == checkGhostCaches(a, k, full)
        p == ARCLRU_put(g.a.lruPart_, k, v, full)
        a1 == [g.a EXCEPT !.lruPart_ = p.c]
    IN  IF ~g.inGhost /\ p.ok
        THEN [a1 EXCEPT !.lfuPart_ = ARCLFU_put(a1.lfuPart_, k, v).c]
        ELSE a1

ARCGet(a, k, full) ==
    LET g == checkGhostCaches(a, k, full)
        r == ARCLRU_get(g.a.lruPart_, k)
        a1 == [g.a EXCEPT !.lruPart_ = r.c]
    IN  IF r.hit
        THEN [a |-> IF r.shouldTransform
                    THEN [a1 EXCEPT !.lfuPart_ = ARCLFU_put(a1.lfuPart_, k, r.out).c]
                    ELSE a1,
              hit |-> TRUE, out |-> r.out]
        ELSE LET f == ARCLFU_get(a1.lfuPart_, k)
             IN  [a |-> [a1 EXCEPT !.lfuPart_ = f.c], hit |-> f.hit, out |-> f.out]

\* ======================================================= sharded wrappers
\* A HashLRUCaches (LRUCache.h) / HashLRUCache (LFUCache.h) object: sliceNum_
\* and the slices LRUSliceCaches_ / LFUSliceCaches_ (slice i of the vector is
\* slices[i + 1]).  Hash is std::hash<Key>: some function of the key, the
\* same for the life of the object.
CeilDiv(a, b) == (a + b - 1) \div b

\* hardware: what std::thread::hardware_concurrency() returns (used for
\* sliceNum <= 0)
HashLRUCachesNew(capacity, sliceNum, hardware, hashFunc) ==
    LET n == IF sliceNum > 0 THEN sliceNum ELSE hardware
        sliceSize == CeilDiv(capacity, n)
    IN  [sliceNum_ |-> n, Hash |-> hashFunc,
         slices |-> [i \in 1..n |-> LRUCacheNew(sliceSize)]]

HashLFUCacheNew(capacity, sliceNum, hardware, hashFunc, maxAverageNum) ==
    LET n == IF sliceNum > 0 THEN sliceNum ELSE hardware
        sliceSize == CeilDiv(capacity, n)
    IN  [sliceNum_ |-> n, Hash |-> hashFunc,
         slices |-> [i \in 1..n |-> LFUCacheNew(sliceSize, maxAverageNum)]]

NoHash == [sliceNum_ |-> 0, Hash |-> [k \in Keys |-> 0], slices |-> <<>>]

sliceIndexByLoad(h, k) ==
    ((h.Hash[k] + Cardinality(DOMAIN h.slices[1].nodeMap_)) % h.sliceNum_) + 1

\* size_t sliceIndex = Hash(key) % sliceNum_ (as an index of `slices`)
sliceIndex(h, k) == (h.Hash[k] % h.sliceNum_) + 1

HashLRUPut(h, k, v) ==
    [h EXCEPT !.slices[sliceIndex(h, k)] = LRUPut(@, k, v)]

HashLRUGet(h, k) ==
    LET r == LRUGet(h.slices[sliceIndex(h, k)], k)
    IN  [h |-> [h EXCEPT !.slices[sliceIndex(h, k)] = r.c], hit |-> r.hit, out |-> r.out]

HashLFUPut(h, k, v, order) ==
    [h EXCEPT !.slices[sliceIndex(h, k)] = LFUPut(@, k, v, order)]

HashLFUGet(h, k, order) ==
    LET r == LFUGet(h.slices[sliceIndex(h, k)], k, order)
    IN  [h |-> [h EXCEPT !.slices[sliceIndex(h, k)] = r.c], hit |-> r.hit, out |-> r.out]

\* ================================================================ actions
Idle ==
    [lru |-> LRUCacheNew(0), lfu |-> LFUCacheNew(0, 1), lruk |-> LRUKCacheNew(0, 0, 1),
     arc |-> ARCCacheNew(0, 1)]

Threads == 1..NumThreads
NoCall == [name |-> "none", key |-> NoKey, value |-> DefaultValue, found |-> FALSE,
           hit |-> FALSE, out |-> DefaultValue, serialHit |-> FALSE, serialOut |-> DefaultValue]

\* no thread has called yet
InitThreads ==
    /\ pc = [t \in Threads |-> "idle"]
    /\ call = [t \in Threads |-> NoCall]
    /\ mutex_ = {}
    /\ serial = LRUCacheNew(0)
    /\ raced = FALSE

InitHistory ==
    /\ op = NoOp
    /\ touched = <<>>
    /\ fresh = NoFresh
    /\ removed = FALSE
    /\ lastPut = [k \in Keys |-> DefaultValue]
    /\ run = [key |-> NoKey, n |-> 0]
    /\ ghostHit = "none"
    /\ completed = [k \in Keys |-> [n |-> 0, kept |-> TRUE]]

InitLRU ==
    /\ policy = "LRU"
    /\ \E capacity \in Capacities : lru = LRUCacheNew(capacity)
    /\ lfu = Idle.lfu
    /\ lruk = Idle.lruk
    /\ arc = Idle.arc
    /\ InitHistory
    /\ hash = NoHash
    /\ InitThreads

InitLRUK ==
    /\ policy = "LRUK"
    /\ lru = Idle.lru
    /\ lfu = Idle.lfu
    /\ \E capacity \in 1..MaxCapacity, historyCapacity \in 0..MaxCapacity, k \in 2..MaxK :
          lruk = LRUKCacheNew(capacity, historyCapacity, k)
    /\ arc = Idle.arc
    /\ InitHistory
    /\ hash = NoHash
    /\ InitThreads

InitLFU ==
    /\ policy = "LFU"
    /\ lru = Idle.lru
    /\ lruk = Idle.lruk
    /\ arc = Idle.arc
    /\ \E capacity \in Capacities, maxAverageNum \in MaxAverageNums :
          lfu = LFUCacheNew(capacity, maxAverageNum)
    /\ InitHistory
    /\ hash = NoHash
    /\ InitThreads

LRUCachePut ==
    /\ policy = "LRU"
    /\ \E k \in Keys, v \in Values :
          /\ lru' = LRUPut(lru, k, v)
          /\ op' = OpPut(k, v)
          /\ fresh' = [key |-> k, value |-> v]
          /\ touched' = IF lru.capacity_ <= 0 THEN touched ELSE Touch(touched, k)
    /\ UNCHANGED <<ghostHit, completed, hash, concurrent, policy, lfu, lruk, arc, removed, lastPut, run>>

LRUCacheGet ==
    /\ policy = "LRU"
    /\ \E k \in Keys :
          LET r == LRUGet(lru, k)
          IN  /\ lru' = r.c
              /\ op' = OpGet(k, r.hit, r.out)
              /\ fresh' = FreshAfterGet(fresh, k)
              /\ touched' = IF r.hit THEN Touch(touched, k) ELSE touched
    /\ UNCHANGED <<ghostHit, completed, hash, concurrent, policy, lfu, lruk, arc, removed, lastPut, run>>

LRUCacheRemove ==
    /\ policy = "LRU"
    /\ \E k \in Keys :
          /\ lru' = LRURemove(lru, k)
          /\ op' = OpOther("remove", k)
    /\ fresh' = NoFresh
    /\ removed' = TRUE
    /\ UNCHANGED <<ghostHit, completed, hash, concurrent, policy, lfu, lruk, arc, touched, lastPut, run>>

LFUCachePut ==
    /\ policy = "LFU"
    /\ lfu.curTotalNum_ < MaxTotal
    /\ \E k \in Keys, v \in Values :
          \E order \in Orders(lfu, k) :
              /\ lfu' = LFUPut(lfu, k, v, order)
              /\ op' = OpPut(k, v)
              /\ fresh' = [key |-> k, value |-> v]
              /\ touched' = IF lfu.capacity_ = 0 THEN touched ELSE Touch(touched, k)
    /\ UNCHANGED <<ghostHit, completed, hash, concurrent, policy, lru, lruk, arc, removed, lastPut, run>>

LFUCacheGet ==
    /\ policy = "LFU"
    /\ lfu.curTotalNum_ < MaxTotal
    /\ \E k \in Keys :
          \E order \in Orders(lfu, k) :
              LET r == LFUGet(lfu, k, order)
              IN  /\ lfu' = r.c
                  /\ op' = OpGet(k, r.hit, r.out)
                  /\ fresh' = FreshAfterGet(fresh, k)
                  /\ touched' = IF r.hit THEN Touch(touched, k) ELSE touched
    /\ UNCHANGED <<ghostHit, completed, hash, concurrent, policy, lru, lruk, arc, removed, lastPut, run>>

LFUCachePurge ==
    /\ policy = "LFU"
    /\ lfu' = LFUPurge(lfu)
    /\ op' = OpOther("purge", NoKey)
    /\ fresh' = NoFresh
    /\ UNCHANGED <<ghostHit, completed, hash, concurrent, policy, lru, lruk, arc, touched, removed, lastPut, run>>

LRUKHistoryCount(k) ==
    IF k \in DOMAIN lruk.historyList_.nodeMap_ THEN lruk.historyList_.nodeMap_[k] ELSE 0

LRUKCacheGet ==
    /\ policy = "LRUK"
    /\ \E k \in Keys :
          LET r == LRUKGet(lruk, k)
              absent == k \notin DOMAIN lruk.main.nodeMap_
                        /\ k \notin DOMAIN lruk.historyList_.nodeMap_
          IN  /\ LRUKHistoryCount(k) < MaxAccess
              /\ lruk' = r.c
              /\ op' = OpGet(k, r.hit, r.out)
              /\ run' = IF run.key = k
                         THEN [run EXCEPT !.n = IF @ > lruk.k_ THEN @ ELSE @ + 1]
                         ELSE IF absent THEN [key |-> k, n |-> 1]
                         ELSE [key |-> NoKey, n |-> 0]
    /\ UNCHANGED <<ghostHit, completed, hash, concurrent, policy, lru, lfu, arc, touched, fresh, removed, lastPut>>

LRUKCachePut ==
    /\ policy = "LRUK"
    /\ \E k \in Keys, v \in Values \cup {DefaultValue} :
          /\ LRUKHistoryCount(k) < MaxAccess
          /\ lruk' = LRUKPut(lruk, k, v)
          /\ op' = OpPut(k, v)
    /\ run' = [key |-> NoKey, n |-> 0]
    /\ UNCHANGED <<ghostHit, completed, hash, concurrent, policy, lru, lfu, arc, touched, fresh, removed, lastPut>>

InitARCOf(capacities) ==
    /\ policy = "ARC"
    /\ lru = Idle.lru
    /\ lfu = Idle.lfu
    /\ lruk = Idle.lruk
    /\ \E capacity \in capacities, transformThreshold \in 2..MaxThreshold :
          arc = ARCCacheNew(capacity, transformThreshold)
    /\ InitHistory
    /\ hash = NoHash
    /\ InitThreads

InitARC == InitARCOf(0..MaxCapacity)

InitARCValues == InitARCOf(1..ARCValuesCapacity)

\* the branch checkGhostCaches takes: lruPart_->checkGhost(key) first, and
\* lfuPart_->checkGhost(key) only when that found nothing
ARCGhostOf(a, k) ==
    IF k \in DOMAIN a.lruPart_.ghostCache_ THEN "B1"
    ELSE IF k \in SeqSet(a.lfuPart_.ghostList) THEN "B2"
    ELSE "none"

ARCAccessCount(k) ==
    IF k \in DOMAIN arc.lruPart_.mainCache_ THEN arc.lruPart_.mainCache_[k].accessCount ELSE 0

ARCPutOf(vals, maxNodes) ==
    /\ policy = "ARC"
    /\ \E k \in Keys, v \in vals, full \in BOOLEAN :
          /\ Len(ARCPut(arc, k, v, full).lruPart_.mainList) <= maxNodes
          /\ arc' = ARCPut(arc, k, v, full)
          /\ op' = OpPut(k, v)
          /\ lastPut' = [lastPut EXCEPT ![k] = v]
          /\ ghostHit' = ARCGhostOf(arc, k)
    /\ UNCHANGED <<completed, hash, concurrent, policy, lru, lfu, lruk, touched, fresh, removed, run>>

\* put with the values of the structural specification
ARCCachePut == ARCPutOf(1..ARCNumValues, MaxNodes)

\* put with all values, for the claims about the values returned
ARCCachePutValue == ARCPutOf(Values, ARCValuesMaxNodes)

ARCCacheGet ==
    /\ policy = "ARC"
    /\ \E k \in Keys, full \in BOOLEAN :
          LET r == ARCGet(arc, k, full)
          IN  /\ ARCAccessCount(k) < MaxAccess
              /\ arc' = r.a
              /\ op' = OpGet(k, r.hit, r.out)
              /\ ghostHit' = ARCGhostOf(arc, k)
    /\ UNCHANGED <<completed, hash, concurrent, policy, lru, lfu, lruk, touched, fresh, removed, lastPut, run>>

HashSliceNums == 0..MaxSliceNum
HashFuncs == [Keys -> 0..MaxHashValue]

InitHashLRU ==
    /\ policy = "HashLRU"
    /\ lru = Idle.lru
    /\ lfu = Idle.lfu
    /\ lruk = Idle.lruk
    /\ arc = Idle.arc
    /\ \E capacity \in 0..MaxHashCapacity, sliceNum \in HashSliceNums,
          hardware \in 1..MaxSliceNum, hashFunc \in HashFuncs :
          hash = HashLRUCachesNew(capacity, sliceNum, hardware, hashFunc)
    /\ InitHistory
    /\ InitThreads

InitHashLFU ==
    /\ policy = "HashLFU"
    /\ lru = Idle.lru
    /\ lfu = Idle.lfu
    /\ lruk = Idle.lruk
    /\ arc = Idle.arc
    /\ \E capacity \in 0..MaxHashCapacity, sliceNum \in HashSliceNums,
          hardware \in 1..MaxSliceNum, hashFunc \in HashFuncs,
          maxAverageNum \in MaxAverageNums :
          hash = HashLFUCacheNew(capacity, sliceNum, hardware, hashFunc, maxAverageNum)
    /\ InitHistory
    /\ InitThreads

HashLRUCachesPut ==
    /\ policy = "HashLRU"
    /\ \E k \in Keys, v \in Values :
          /\ hash' = HashLRUPut(hash, k, v)
          /\ op' = OpPut(k, v)
          /\ touched' = Touch(touched, k)
    /\ UNCHANGED <<ghostHit, completed, concurrent, policy, lru, lfu, lruk, arc, fresh, removed, lastPut, run>>

HashLRUCachesGet ==
    /\ policy = "HashLRU"
    /\ \E k \in Keys :
          LET r == HashLRUGet(hash, k)
          IN  /\ hash' = r.h
              /\ op' = OpGet(k, r.hit, r.out)
    /\ UNCHANGED <<ghostHit, completed, concurrent, policy, lru, lfu, lruk, arc, touched, fresh, removed, lastPut, run>>

HashLFUCachePut ==
    /\ policy = "HashLFU"
    /\ \E k \in Keys, v \in Values :
          LET slice == hash.slices[sliceIndex(hash, k)]
          IN  /\ slice.curTotalNum_ < HashMaxTotal
              /\ \E order \in Orders(slice, k) : hash' = HashLFUPut(hash, k, v, order)
              /\ op' = OpPut(k, v)
              /\ touched' = Touch(touched, k)
    /\ UNCHANGED <<ghostHit, completed, concurrent, policy, lru, lfu, lruk, arc, fresh, removed, lastPut, run>>

HashLFUCacheGet ==
    /\ policy = "HashLFU"
    /\ \E k \in Keys :
          LET slice == hash.slices[sliceIndex(hash, k)]
          IN  /\ slice.curTotalNum_ < HashMaxTotal
              /\ \E order \in Orders(slice, k) :
                    LET r == HashLFUGet(hash, k, order)
                    IN  /\ hash' = r.h
                        /\ op' = OpGet(k, r.hit, r.out)
    /\ UNCHANGED <<ghostHit, completed, concurrent, policy, lru, lfu, lruk, arc, touched, fresh, removed, lastPut, run>>

InitHash == InitHashLRU \/ InitHashLFU
NextHash == HashLRUCachesPut \/ HashLRUCachesGet \/ HashLFUCachePut \/ HashLFUCacheGet
SpecHash == InitHash /\ [][NextHash]_vars

\* ---------------------------------------------------------------- threads
\* Threads calling put / get / remove (LRUCache) or put / get / purge
\* (LFUCache) on one shared instance.  A call is a sequence of steps: the
\* call, std::lock_guard's lock of mutex_, nodeMap_.find, the rest of the
\* body, and the unlock at the return.  purge takes no lock.
ThreadKeys == 1..NumThreadKeys

PutCalls == {[NoCall EXCEPT !.name = "put", !.key = k, !.value = v] : k \in ThreadKeys, v \in Values}
KeyCalls(n) == {[NoCall EXCEPT !.name = n, !.key = k] : k \in ThreadKeys}
PurgeCall == [NoCall EXCEPT !.name = "purge"]

\* std::mutex::lock returns only when no thread holds the mutex
MutexAlwaysFree(m) == TRUE
MutexFree(m) == m = {}

\* thread t is in the part of its call that accesses the shared object: the
\* critical section of put / get / remove, the body of purge
InAccess(t) == pc[t] \in {"locked", "found", "applied", "purging"}
\* an access of thread t overlaps a call of another thread that is accessing
Overlaps(t) == \E u \in Threads \ {t} : InAccess(u)

ThreadIndex == IF policy = "LRUThreads" THEN DOMAIN lru.nodeMap_ ELSE DOMAIN lfu.nodeMap_

\* the whole call c run on LRUCache object s
SerialCall(s, c) ==
    IF c.name = "put" THEN [c |-> LRUPut(s, c.key, c.value), hit |-> FALSE, out |-> DefaultValue]
    ELSE IF c.name = "get" THEN LRUGet(s, c.key)
    ELSE [c |-> LRURemove(s, c.key), hit |-> FALSE, out |-> DefaultValue]

ThreadResult(c) ==
    [name |-> c.name, key |-> c.key, value |-> c.value, hit |-> c.hit, out |-> c.out]

InitLRUThreads ==
    /\ policy = "LRUThreads"
    /\ \E capacity \in 0..MaxCapacity : lru = LRUCacheNew(capacity)
    /\ lfu = Idle.lfu
    /\ lruk = Idle.lruk
    /\ arc = Idle.arc
    /\ hash = NoHash
    /\ InitHistory
    /\ pc = [t \in Threads |-> "idle"]
    /\ call = [t \in Threads |-> NoCall]
    /\ mutex_ = {}
    /\ serial = lru
    /\ raced = FALSE

InitLFUThreads ==
    /\ policy = "LFUThreads"
    /\ lru = Idle.lru
    /\ \E capacity \in 0..MaxCapacity, maxAverageNum \in MaxAverageNums :
          lfu = LFUCacheNew(capacity, maxAverageNum)
    /\ lruk = Idle.lruk
    /\ arc = Idle.arc
    /\ hash = NoHash
    /\ InitHistory
    /\ InitThreads

ThreadCall ==
    /\ ~raced
    /\ \E t \in Threads :
          /\ pc[t] = "idle"
          /\ \E c \in IF policy = "LRUThreads"
                       THEN PutCalls \cup KeyCalls("get") \cup KeyCalls("remove")
                       ELSE PutCalls \cup KeyCalls("get") \cup {PurgeCall} :
                call' = [call EXCEPT ![t] = c]
          /\ pc' = [pc EXCEPT ![t] = "called"]
    /\ UNCHANGED <<ghostHit, completed, hash, mutex_, serial, raced, policy, lru, lfu, lruk, arc, op, touched,
                   fresh, removed, lastPut, run>>

\* put returns before the lock: capacity_ <= 0 (LRUCache), capacity_ == 0 (LFUCache)
ThreadSkips(t) ==
    /\ call[t].name = "put"
    /\ IF policy = "LRUThreads" THEN lru.capacity_ <= 0 ELSE lfu.capacity_ = 0

ThreadSkip ==
    /\ ~raced
    /\ \E t \in Threads :
          /\ pc[t] = "called"
          /\ ThreadSkips(t)
          /\ pc' = [pc EXCEPT ![t] = "idle"]
          /\ call' = [call EXCEPT ![t] = NoCall]
          /\ op' = ThreadResult(call[t])
          /\ serial' = IF policy = "LRUThreads" THEN SerialCall(serial, call[t]).c ELSE serial
    /\ UNCHANGED <<ghostHit, completed, hash, mutex_, raced, policy, lru, lfu, lruk, arc, touched, fresh, removed,
                   lastPut, run>>

\* std::lock_guard<std::mutex> lock(mutex_)
ThreadLock ==
    /\ ~raced
    /\ \E t \in Threads :
          /\ pc[t] = "called"
          /\ call[t].name # "purge"
          /\ ~ThreadSkips(t)
          /\ MutexFree(mutex_)
          /\ mutex_' = {t}
          /\ pc' = [pc EXCEPT ![t] = "locked"]
          /\ IF policy = "LRUThreads"
             THEN LET r == SerialCall(serial, call[t])
                  IN  /\ serial' = r.c
                      /\ call' = [call EXCEPT ![t].serialHit = r.hit, ![t].serialOut = r.out]
             ELSE UNCHANGED <<serial, call>>
    /\ UNCHANGED <<ghostHit, completed, hash, raced, policy, lru, lfu, lruk, arc, op, touched, fresh, removed,
                   lastPut, run>>

\* auto it = nodeMap_.find(key)
ThreadFind ==
    /\ ~raced
    /\ \E t \in Threads :
          /\ pc[t] = "locked"
          /\ call' = [call EXCEPT ![t].found = call[t].key \in ThreadIndex]
          /\ pc' = [pc EXCEPT ![t] = "found"]
          /\ raced' = Overlaps(t)
    /\ UNCHANGED <<ghostHit, completed, hash, mutex_, serial, policy, lru, lfu, lruk, arc, op, touched, fresh,
                   removed, lastPut, run>>

\* the body of LRUCache::put / get / remove after the find
LRUThreadApply ==
    /\ ~raced
    /\ policy = "LRUThreads"
    /\ \E t \in Threads :
          LET c == call[t] IN
          /\ pc[t] = "found"
          /\ lru' = IF c.name = "put"
                     THEN IF c.found THEN updateExistingNode(lru, c.key, c.value)
                          ELSE addNewNode(lru, c.key, c.value)
                     ELSE IF c.name = "get"
                     THEN IF c.found THEN moveToMostRecent(lru, c.key) ELSE lru
                     ELSE IF c.found
                          THEN [removeNode(lru, c.key) EXCEPT !.nodeMap_ = MapErase(lru.nodeMap_, c.key)]
                          ELSE lru
          /\ call' = IF c.name = "get" /\ c.found
                      THEN [call EXCEPT ![t].hit = TRUE, ![t].out = lru.nodeMap_[c.key]]
                      ELSE call
          /\ pc' = [pc EXCEPT ![t] = "applied"]
          /\ raced' = Overlaps(t)
    /\ UNCHANGED <<ghostHit, completed, hash, mutex_, serial, policy, lfu, lruk, arc, op, touched, fresh, removed,
                   lastPut, run>>

\* the body of LFUCache::put / get after the find
LFUThreadApply ==
    /\ ~raced
    /\ policy = "LFUThreads"
    /\ lfu.curTotalNum_ < ThreadMaxTotal
    /\ \E t \in Threads :
          LET c == call[t] IN
          /\ pc[t] = "found"
          /\ \E order \in Orders(lfu, c.key) :
                lfu' = IF c.name = "put"
                       THEN IF c.found
                            THEN getInternal([lfu EXCEPT !.nodeMap_[c.key].value = c.value],
                                             c.key, order)
                            ELSE putInternal(lfu, c.key, c.value, order)
                       ELSE IF c.found THEN getInternal(lfu, c.key, order) ELSE lfu
          /\ call' = IF c.name = "get" /\ c.found
                      THEN [call EXCEPT ![t].hit = TRUE, ![t].out = lfu.nodeMap_[c.key].value]
                      ELSE call
          /\ pc' = [pc EXCEPT ![t] = "applied"]
          /\ raced' = Overlaps(t)
    /\ UNCHANGED <<ghostHit, completed, hash, mutex_, serial, policy, lru, lruk, arc, op, touched, fresh, removed,
                   lastPut, run>>

\* the return: ~lock_guard unlocks mutex_
ThreadUnlock ==
    /\ ~raced
    /\ \E t \in Threads :
          /\ pc[t] = "applied"
          /\ mutex_' = mutex_ \ {t}
          /\ pc' = [pc EXCEPT ![t] = "idle"]
          /\ call' = [call EXCEPT ![t] = NoCall]
          /\ op' = ThreadResult(call[t])
    /\ UNCHANGED <<ghostHit, completed, hash, serial, raced, policy, lru, lfu, lruk, arc, touched, fresh, removed,
                   lastPut, run>>

\* LFUCache::purge, first statement: nodeMap_.clear()
LFUThreadPurgeMap ==
    /\ ~raced
    /\ policy = "LFUThreads"
    /\ \E t \in Threads :
          /\ pc[t] = "called"
          /\ call[t].name = "purge"
          /\ lfu' = [lfu EXCEPT !.nodeMap_ = EmptyMap]
          /\ pc' = [pc EXCEPT ![t] = "purging"]
          /\ raced' = Overlaps(t)
    /\ UNCHANGED <<ghostHit, completed, hash, call, mutex_, serial, policy, lru, lruk, arc, op, touched, fresh,
                   removed, lastPut, run>>

\* LFUCache::purge, second statement: freqToFreqList_.clear(), and the return
LFUThreadPurgeLists ==
    /\ ~raced
    /\ policy = "LFUThreads"
    /\ \E t \in Threads :
          /\ pc[t] = "purging"
          /\ lfu' = [lfu EXCEPT !.freqToFreqList_ = EmptyMap]
          /\ pc' = [pc EXCEPT ![t] = "idle"]
          /\ call' = [call EXCEPT ![t] = NoCall]
          /\ op' = ThreadResult(call[t])
          /\ raced' = Overlaps(t)
    /\ UNCHANGED <<ghostHit, completed, hash, mutex_, serial, policy, lru, lruk, arc, touched, fresh, removed,
                   lastPut, run>>

NextLRUThreads == ThreadCall \/ ThreadSkip \/ ThreadLock \/ ThreadFind \/ LRUThreadApply \/ ThreadUnlock
SpecLRUThreads == InitLRUThreads /\ [][NextLRUThreads]_vars

NextLFUThreads ==
    \/ ThreadCall \/ ThreadSkip \/ ThreadLock \/ ThreadFind \/ LFUThreadApply \/ ThreadUnlock
    \/ LFUThreadPurgeMap \/ LFUThreadPurgeLists
SpecLFUThreads == InitLFUThreads /\ [][NextLFUThreads]_vars

\* ------------------------------------------------------- LRUKCache threads
\* Threads calling get / put on one shared LRUKCache.  LRUKCache takes no
\* lock of its own: each call is a sequence of calls on the base LRUCache and
\* on historyList_, and each of those runs under the mutex_ of its object,
\* so it is one step.  historyCount is a local of the calling thread.
NoLRUKCall == [name |-> "none", key |-> NoKey, value |-> DefaultValue, historyCount |-> 0]

InitLRUKThreads ==
    /\ policy = "LRUKThreads"
    /\ lru = Idle.lru
    /\ lfu = Idle.lfu
    /\ \E capacity \in 1..MaxCapacity, historyCapacity \in 1..MaxCapacity, k \in 2..MaxK :
          lruk = LRUKCacheNew(capacity, historyCapacity, k)
    /\ arc = Idle.arc
    /\ hash = NoHash
    /\ InitHistory
    /\ pc = [t \in Threads |-> "idle"]
    /\ call = [t \in Threads |-> NoLRUKCall]
    /\ mutex_ = {}
    /\ serial = LRUCacheNew(0)
    /\ raced = FALSE

LRUKThreadRest ==
    <<ghostHit, hash, mutex_, serial, raced, policy, lru, lfu, arc, op, touched, fresh,
      removed, lastPut, run>>

\* the calls in flight on key k
LRUKCalling(k) == {t \in Threads : pc[t] # "idle" /\ call[t].key = k}

\* the history entries that history list h2 no longer has lose `kept`
LRUKKept(h2) ==
    [k \in Keys |->
        [completed[k] EXCEPT
            !.kept = @ /\ ~(k \in DOMAIN lruk.historyList_.nodeMap_ /\ k \notin DOMAIN h2.nodeMap_)]]

\* the call of thread t returns
LRUKReturn(t) ==
    /\ pc' = [pc EXCEPT ![t] = "idle"]
    /\ call' = [call EXCEPT ![t] = NoLRUKCall]

LRUKThreadCall ==
    /\ policy = "LRUKThreads"
    /\ \E t \in Threads, k \in ThreadKeys :
          /\ pc[t] = "idle"
          /\ completed[k].n + Cardinality(LRUKCalling(k)) < MaxAccess
          /\ \/ /\ call' = [call EXCEPT ![t] = [NoLRUKCall EXCEPT !.name = "get", !.key = k]]
                /\ pc' = [pc EXCEPT ![t] = "count"]
             \/ /\ \E v \in Values :
                      call' = [call EXCEPT ![t] = [NoLRUKCall EXCEPT !.name = "put", !.key = k,
                                                                        !.value = v]]
                /\ pc' = [pc EXCEPT ![t] = "probe"]
    /\ UNCHANGED <<lruk, completed, LRUKThreadRest>>

\* put, line 206: if (LRUCache<Key, Value>::get(key) != "")
LRUKThreadProbe ==
    /\ policy = "LRUKThreads"
    /\ \E t \in Threads :
          LET g == LRUGet(lruk.main, call[t].key) IN
          /\ pc[t] = "probe"
          /\ lruk' = [lruk EXCEPT !.main = g.c]
          /\ pc' = [pc EXCEPT ![t] = IF g.out # DefaultValue THEN "overwrite" ELSE "count"]
    /\ UNCHANGED <<call, completed, LRUKThreadRest>>

\* put, line 208: LRUCache<Key, Value>::put(key, value)
LRUKThreadOverwrite ==
    /\ policy = "LRUKThreads"
    /\ \E t \in Threads :
          /\ pc[t] = "overwrite"
          /\ lruk' = [lruk EXCEPT !.main = LRUPut(@, call[t].key, call[t].value)]
          /\ pc' = [pc EXCEPT ![t] = "count"]
    /\ UNCHANGED <<call, completed, LRUKThreadRest>>

\* lines 195 and 212: int historyCount = historyList_->get(key)
LRUKThreadHistoryGet ==
    /\ policy = "LRUKThreads"
    /\ \E t \in Threads :
          LET g == LRUGet(lruk.historyList_, call[t].key) IN
          /\ pc[t] = "count"
          /\ lruk' = [lruk EXCEPT !.historyList_ = g.c]
          /\ call' = [call EXCEPT ![t].historyCount = g.out]
          /\ pc' = [pc EXCEPT ![t] = "record"]
    /\ UNCHANGED <<completed, LRUKThreadRest>>

\* lines 197 and 213: historyList_->put(key, ++historyCount); a put whose
\* count stays below k_ returns here
LRUKThreadHistoryPut ==
    /\ policy = "LRUKThreads"
    /\ \E t \in Threads :
          LET c == call[t]
              historyCount == c.historyCount + 1
              h2 == LRUPut(lruk.historyList_, c.key, historyCount)
          IN  /\ pc[t] = "record"
              /\ lruk' = [lruk EXCEPT !.historyList_ = h2]
              /\ IF c.name = "put" /\ historyCount < lruk.k_
                 THEN /\ LRUKReturn(t)
                      /\ completed' = [LRUKKept(h2) EXCEPT ![c.key].n = @ + 1]
                 ELSE /\ call' = [call EXCEPT ![t].historyCount = historyCount]
                      /\ pc' = [pc EXCEPT ![t] = IF c.name = "get" THEN "lookup" ELSE "admit"]
                      /\ completed' = LRUKKept(h2)
    /\ UNCHANGED LRUKThreadRest

\* get, line 200: return LRUCache<Key, Value>::get(key)
LRUKThreadMainGet ==
    /\ policy = "LRUKThreads"
    /\ \E t \in Threads :
          LET g == LRUGet(lruk.main, call[t].key) IN
          /\ pc[t] = "lookup"
          /\ lruk' = [lruk EXCEPT !.main = g.c]
          /\ LRUKReturn(t)
          /\ completed' = [completed EXCEPT ![call[t].key].n = @ + 1]
    /\ UNCHANGED LRUKThreadRest

\* put, line 218: historyList_->remove(key)
LRUKThreadHistoryRemove ==
    /\ policy = "LRUKThreads"
    /\ \E t \in Threads :
          LET h2 == LRURemove(lruk.historyList_, call[t].key) IN
          /\ pc[t] = "admit"
          /\ lruk' = [lruk EXCEPT !.historyList_ = h2]
          /\ completed' = LRUKKept(h2)
          /\ pc' = [pc EXCEPT ![t] = "insert"]
    /\ UNCHANGED <<call, LRUKThreadRest>>

\* put, line 220: LRUCache<Key, Value>::put(key, value), and the return
LRUKThreadMainPut ==
    /\ policy = "LRUKThreads"
    /\ \E t \in Threads :
          /\ pc[t] = "insert"
          /\ lruk' = [lruk EXCEPT !.main = LRUPut(@, call[t].key, call[t].value)]
          /\ LRUKReturn(t)
          /\ completed' = [completed EXCEPT ![call[t].key].n = @ + 1]
    /\ UNCHANGED LRUKThreadRest

NextLRUKThreads ==
    \/ LRUKThreadCall \/ LRUKThreadProbe \/ LRUKThreadOverwrite \/ LRUKThreadHistoryGet
    \/ LRUKThreadHistoryPut \/ LRUKThreadMainGet \/ LRUKThreadHistoryRemove
    \/ LRUKThreadMainPut
SpecLRUKThreads == InitLRUKThreads /\ [][NextLRUKThreads]_vars

NextLRU == LRUCachePut \/ LRUCacheGet \/ LRUCacheRemove
NextLFU == LFUCachePut \/ LFUCacheGet \/ LFUCachePurge

SpecLRU == InitLRU /\ [][NextLRU]_vars
SpecLFU == InitLFU /\ [][NextLFU]_vars
NextLRUK == LRUKCacheGet \/ LRUKCachePut
SpecLRUK == InitLRUK /\ [][NextLRUK]_vars
NextARC == ARCCachePut \/ ARCCacheGet
SpecARC == InitARC /\ [][NextARC]_vars
NextARCValues == ARCCachePutValue \/ ARCCacheGet
SpecARCValues == InitARCValues /\ [][NextARCValues]_vars

InitLRULFU == InitLRU \/ InitLFU
NextLRULFU == NextLRU \/ NextLFU
SpecLRULFU == InitLRULFU /\ [][NextLRULFU]_vars

\* ================================================================= claims
LRUIndex == DOMAIN lru.nodeMap_
LFUIndex == DOMAIN lfu.nodeMap_
Capacity == IF policy = "LRU" THEN lru.capacity_ ELSE lfu.capacity_
Index == IF policy = "LRU" THEN LRUIndex ELSE LFUIndex
\* position of key k in the touch history (0: never touched)
TouchPos(k) == IF k \in SeqSet(touched) THEN CHOOSE i \in 1..Len(touched) : touched[i] = k ELSE 0
\* the smallest frequency of an indexed entry
LFUMinFreq(c) == SetMin({c.nodeMap_[k].freq : k \in DOMAIN c.nodeMap_})
LFUEvicted == IF op'.name = "put" THEN LFUIndex \ DOMAIN lfu'.nodeMap_ ELSE {}
LFUHit == op'.name \in {"put", "get"} /\ op'.key \in LFUIndex

\* C1: an LRUCache of capacity C >= 1 that saw only put and get indexes at
\* most C keys, and exactly the last C distinct keys touched by a put or a
\* successful get (all of them when fewer than C were touched).
C1_LRUKeepsLastTouched ==
    (policy = "LRU" /\ lru.capacity_ >= 1 /\ ~removed) =>
        /\ Cardinality(LRUIndex) <= lru.capacity_
        /\ LRUIndex = LastN(touched, lru.capacity_)

C1_Witness ==
    /\ policy = "LRU" /\ lru.capacity_ = 2 /\ ~removed
    /\ op.name = "put" /\ Len(touched) = 3
    /\ LRUIndex = {touched[2], touched[3]}

\* C2: LRUCache / LFUCache of capacity >= 1: a get(k) that follows a put(k, v)
\* with only calls on k in between (further puts replace v) reports a hit and
\* returns the value of the latest put to k.
C2_GetAfterPut ==
    (policy \in {"LRU", "LFU"} /\ Capacity >= 1 /\ op.name = "get" /\ fresh.key = op.key) =>
        (op.hit /\ op.out = fresh.value)

C2_Witness ==
    /\ policy = "LFU" /\ lfu.capacity_ = 1
    /\ op.name = "get" /\ fresh.key = op.key /\ op.hit /\ op.out = 2
    /\ lfu.curTotalNum_ >= 4

\* C3: whenever an ARCCache get(k) reports a hit, the value it returns is
\* the value of the most recent put(k, .).
C3_ARCHitReturnsLatestPut ==
    (policy = "ARC" /\ op.name = "get" /\ op.hit) => op.out = lastPut[op.key]

\* C4: an LRUCache / LFUCache constructed with capacity <= 0 stays empty
\* whatever is put, and every get on it misses.
C4_NonPositiveCapacityStaysEmpty ==
    (policy \in {"LRU", "LFU"} /\ Capacity <= 0) =>
        (Index = {} /\ (op.name = "get" => ~op.hit))

\* C5: a get that misses on an LRUCache or an LFUCache changes nothing of the
\* object (index, list or buckets, values, frequencies, minFreq_, counters).
C5_MissChangesNothing ==
    [][(op'.name = "get" /\ ~op'.hit) => (lru' = lru /\ lfu' = lfu)]_vars

C5_Witness ==
    /\ policy = "LFU" /\ op.name = "get" /\ ~op.hit
    /\ Cardinality(LFUIndex) = 2 /\ lfu.curTotalNum_ >= 3

\* C6: an LFUCache of capacity C >= 1 never indexes more than C keys, and a
\* put of a new key into a full cache removes exactly one indexed key and
\* admits the new one.
C6_LFUBounded ==
    [][lfu.capacity_ >= 1 =>
        /\ Cardinality(DOMAIN lfu'.nodeMap_) <= lfu.capacity_
        /\ (op'.name = "put" /\ op'.key \notin LFUIndex
                /\ Cardinality(LFUIndex) = lfu.capacity_)
            => \E victim \in LFUIndex :
                  DOMAIN lfu'.nodeMap_ = (LFUIndex \ {victim}) \cup {op'.key}]_vars

C6_Witness ==
    /\ policy = "LFU" /\ lfu.capacity_ = 2 /\ op.name = "put"
    /\ Cardinality(LFUIndex) = 2 /\ Len(touched) = 3
    /\ touched[3] = op.key /\ touched[1] \notin LFUIndex
    /\ lfu.curAverageNum_ > lfu.maxAverageNum_

\* C7 as stated: every LFU hit (successful get, put on an indexed key)
\* leaves the key's frequency exactly 1 higher.
C7_HitAddsOne ==
    [][LFUHit => lfu'.nodeMap_[op'.key].freq = lfu.nodeMap_[op'.key].freq + 1]_vars

\* the hit raises curAverageNum_ above maxAverageNum_, so it ages all entries
LFUHitAges == (lfu.curTotalNum_ + 1) \div Cardinality(LFUIndex) > lfu.maxAverageNum_
LFUAged(f) ==
    IF f - (lfu.maxAverageNum_ \div 2) < 1 THEN 1 ELSE f - (lfu.maxAverageNum_ \div 2)

\* C7 amended: a hit leaves the key's frequency exactly 1 higher unless the
\* hit triggers an age-down; then it is (old + 1 - maxAverageNum_/2), at least 1.
C7_HitAddsOneThenAges ==
    [][LFUHit =>
        lfu'.nodeMap_[op'.key].freq =
            IF LFUHitAges THEN LFUAged(lfu.nodeMap_[op'.key].freq + 1)
            ELSE lfu.nodeMap_[op'.key].freq + 1]_vars

C7_Witness ==
    /\ policy = "LFU" /\ op.name = "get" /\ op.hit
    /\ lfu.maxAverageNum_ = 2
    /\ lfu.nodeMap_[op.key].freq = 1

\* C8: the entry an LFUCache put evicts has the minimum frequency of all
\* entries indexed just before the eviction.
C8_VictimHasMinFreq ==
    [][\A k \in LFUEvicted : lfu.nodeMap_[k].freq = LFUMinFreq(lfu)]_vars

C8_Witness ==
    /\ policy = "LFU" /\ lfu.capacity_ = 2 /\ op.name = "put"
    /\ Cardinality(LFUIndex) = 2 /\ Len(touched) = 3
    /\ touched[3] = op.key /\ touched[1] \notin LFUIndex
    /\ lfu.nodeMap_[touched[2]].freq >= 2

\* C9: the entry an LFUCache put evicts is, among the entries of minimum
\* frequency, the one whose last insertion or hit is the oldest, also after
\* an age-down re-bucketed the entries.
C9_VictimIsOldestOfMinFreq ==
    [][\A k \in LFUEvicted : \A j \in LFUIndex :
          lfu.nodeMap_[j].freq = LFUMinFreq(lfu) => TouchPos(k) <= TouchPos(j)]_vars

\* C10 as stated: for a key in neither the main cache nor the history, the
\* first K-1 get(k) leave k out of the main cache and the K-th get(k) admits it.
C10_KthGetAdmits ==
    (policy = "LRUK" /\ run.n >= 1) =>
        /\ run.n < lruk.k_ => run.key \notin DOMAIN lruk.main.nodeMap_
        /\ run.n = lruk.k_ => run.key \in DOMAIN lruk.main.nodeMap_

\* C10 amended: the first K-1 get(k) leave k out of the main cache, and so do
\* the K-th and every later get(k): get never admits a key.
C10_GetNeverAdmits ==
    (policy = "LRUK" /\ run.n >= 1) => run.key \notin DOMAIN lruk.main.nodeMap_

C10_Witness ==
    /\ policy = "LRUK" /\ run.n = lruk.k_ /\ op.name = "get" /\ op.key = run.key
    /\ LRUKHistoryCount(run.key) = lruk.k_

\* C11: an LRUKCache put(k, v) on a key that is not in the main cache and
\* whose history count, after the increment of this put, is still below k_
\* leaves the main cache as it was (index, values, recency order).
C11_PutBelowKKeepsMain ==
    [][(op'.name = "put" /\ policy = "LRUK"
            /\ op'.key \notin DOMAIN lruk.main.nodeMap_
            /\ LRUKHistoryCount(op'.key) + 1 < lruk.k_)
        => lruk'.main = lruk.main]_vars

C11_Witness ==
    /\ policy = "LRUK" /\ op.name = "put" /\ lruk.k_ = 3
    /\ op.key \notin DOMAIN lruk.main.nodeMap_
    /\ LRUKHistoryCount(op.key) = 2
    /\ Cardinality(DOMAIN lruk.main.nodeMap_) = lruk.main.capacity_

\* the ghost keys of the two halves of the ARCCache
ARCB1 == DOMAIN arc.lruPart_.ghostCache_
ARCB2 == SeqSet(arc.lfuPart_.ghostList)

\* C12: the number of keys indexed in the LRU half of an ARCCache
\* (ARCLRUPart::mainCache_) never exceeds that half's current capacity_.
C12_T1WithinCapacity ==
    policy = "ARC" =>
        Cardinality(DOMAIN arc.lruPart_.mainCache_) <= arc.lruPart_.capacity_

\* C13: in every state of an ARCCache constructed with capacity C, the
\* capacity of the LRU half plus the capacity of the LFU half equals C.
C13_CapacitiesSumToC ==
    policy = "ARC" =>
        arc.lruPart_.capacity_ + arc.lfuPart_.capacity_ = arc.capacity_

\* C14: an ARCCache get(k) on a key that is in a ghost list (B1 or B2) when
\* the call starts reports a miss.
C14_GhostGetMisses ==
    [][(policy = "ARC" /\ op'.name = "get" /\ op'.key \in ARCB1 \cup ARCB2)
        => ~op'.hit]_vars

\* the value a slice stores for key k
SliceValue(c, k) == IF policy = "HashLFU" THEN c.nodeMap_[k].value ELSE c.nodeMap_[k]

\* C15: every put and get on key k of a sharded wrapper with N slices is
\* served by slice Hash(k) mod N: the other slices are left as they were (no
\* key of another slice is evicted), a get hits exactly when that slice
\* indexes k, a put stores k there, and a key is only ever stored in its slice.
C15_ShardIsolation ==
    [][(op'.name \in {"put", "get"} /\ policy \in {"HashLRU", "HashLFU"}) =>
        LET served == (hash.Hash[op'.key] % hash.sliceNum_) + 1
        IN  /\ \A i \in 1..hash.sliceNum_ : i # served => hash'.slices[i] = hash.slices[i]
            /\ op'.name = "get" => op'.hit = (op'.key \in DOMAIN hash.slices[served].nodeMap_)
            /\ (op'.name = "put" /\ hash.slices[served].capacity_ > 0) =>
                  /\ op'.key \in DOMAIN hash'.slices[served].nodeMap_
                  /\ SliceValue(hash'.slices[served], op'.key) = op'.value
            /\ \A i \in 1..hash.sliceNum_ : \A k \in DOMAIN hash'.slices[i].nodeMap_ :
                  i = (hash.Hash[k] % hash.sliceNum_) + 1]_vars

\* three keys were put, the first and the last into slice 1 of capacity 1:
\* the last put evicted the first key there while slice 2 keeps the second
C15_Witness ==
    /\ policy = "HashLFU" /\ hash.sliceNum_ = 2 /\ op.name = "put"
    /\ hash.slices[1].capacity_ = 1
    /\ Len(touched) = 3 /\ touched[3] = op.key
    /\ DOMAIN hash.slices[1].nodeMap_ = {touched[3]}
    /\ DOMAIN hash.slices[2].nodeMap_ = {touched[2]}
    /\ (hash.Hash[touched[1]] % 2) + 1 = 1

\* C16: every execution of threads calling put, get and remove on one
\* LRUCache is equivalent to running the whole calls one at a time in the
\* order in which they took mutex_: no two calls overlap in their accesses,
\* each call computes the result of the sequential run, and between calls the
\* object (index, values, recency order) is the one of the sequential run.
C16_LRULinearizable ==
    policy = "LRUThreads" =>
        /\ ~raced
        /\ mutex_ = {} => lru = serial
        /\ \A t \in Threads : pc[t] = "applied" =>
              /\ lru = serial
              /\ call[t].hit = call[t].serialHit
              /\ call[t].out = call[t].serialOut

\* thread 1 has finished the body of a get that hit while thread 2, which
\* called remove on the same key, waits for mutex_
C16_Witness ==
    /\ policy = "LRUThreads" /\ lru.capacity_ = 1
    /\ pc[1] = "applied" /\ call[1].name = "get" /\ call[1].hit /\ call[1].out = 2
    /\ pc[2] = "called" /\ call[2].name = "remove" /\ call[2].key = call[1].key
    /\ op.name = "put" /\ op.key = call[1].key

\* C17: no two threads are at once between the first and the last access of
\* their calls on one LFUCache unless both hold its mutex_ (which excludes it).
C17_AccessOnlyUnderMutex ==
    policy = "LFUThreads" =>
        \A t, u \in Threads :
            (t # u /\ InAccess(t) /\ InAccess(u)) => (t \in mutex_ /\ u \in mutex_)

RECURSIVE SumFreq(_, _)
SumFreq(c, S) ==
    IF S = {} THEN 0
    ELSE LET k == CHOOSE x \in S : TRUE IN c.nodeMap_[k].freq + SumFreq(c, S \ {k})

\* number of occurrences of key k in list s
Occurrences(s, k) == Cardinality({i \in 1..Len(s) : s[i] = k})
LFUNonEmptyFreqs == {f \in DOMAIN lfu.freqToFreqList_ : lfu.freqToFreqList_[f] # <<>>}

\* C18: between the calls on an LFUCache every indexed entry is linked once,
\* in the bucket keyed by its own frequency and in no other, every frequency
\* is >= 1, and when the cache is not empty minFreq_ is the smallest frequency
\* whose bucket is not empty.
C18_LFUStructure ==
    policy = "LFU" =>
        /\ \A k \in LFUIndex :
              /\ lfu.nodeMap_[k].freq >= 1
              /\ lfu.nodeMap_[k].freq \in DOMAIN lfu.freqToFreqList_
              /\ \A f \in DOMAIN lfu.freqToFreqList_ :
                    Occurrences(lfu.freqToFreqList_[f], k) =
                        IF f = lfu.nodeMap_[k].freq THEN 1 ELSE 0
        /\ LFUIndex # {} => lfu.minFreq_ = SetMin(LFUNonEmptyFreqs)

\* the last call, a get that hit, aged two entries down by one, into
\* different buckets
C18_Witness ==
    /\ policy = "LFU" /\ lfu.maxAverageNum_ = 2
    /\ lfu.curAverageNum_ > lfu.maxAverageNum_
    /\ Cardinality(LFUIndex) = 2
    /\ Cardinality(LFUNonEmptyFreqs) = 2
    /\ op.name = "get" /\ op.hit

\* C19: between the calls on an LFUCache curTotalNum_ equals the sum of the
\* frequencies of the indexed entries.
C19_TotalIsSumOfFreqs ==
    policy = "LFU" => lfu.curTotalNum_ = SumFreq(lfu, LFUIndex)

\* C20: no key is at the same time in the admission history and in the main
\* cache of an LRUKCache.
C20_HistoryDisjointFromMain ==
    policy = "LRUK" =>
        DOMAIN lruk.historyList_.nodeMap_ \cap DOMAIN lruk.main.nodeMap_ = {}

\* the keys indexed in the two halves of the ARCCache
ARCT1 == DOMAIN arc.lruPart_.mainCache_
ARCT2 == DOMAIN arc.lfuPart_.mainCache_

\* C21: between the calls on an ARCCache the nodes linked between mainHead_
\* and mainTail_ of the LRU half are the nodes of the keys of mainCache_, each
\* once, and the nodes linked between ghostHead_ and ghostTail_ are the nodes
\* of the keys of ghostCache_, each once.
C21_ListsMatchIndexes ==
    policy = "ARC" =>
        /\ \A i \in 1..Len(arc.lruPart_.mainList) : arc.lruPart_.mainList[i].held = "main"
        /\ Len(arc.lruPart_.mainList) = Cardinality(ARCT1)
        /\ \A i \in 1..Len(arc.lruPart_.ghostList) : arc.lruPart_.ghostList[i].held = "ghost"
        /\ Len(arc.lruPart_.ghostList) = Cardinality(ARCB1)

\* C23: between the calls on an ARCCache no key is both in a ghost list (B1
\* or B2) and in a real list (T1 or T2).
C23_GhostsDisjointFromReal ==
    policy = "ARC" => (ARCB1 \cup ARCB2) \cap (ARCT1 \cup ARCT2) = {}

\* C24: a put or get of a key found in B1 lowers cap(T2) by 1 and raises
\* cap(T1) by 1 when cap(T2) > 0 and changes neither when cap(T2) = 0; a key
\* not in B1 but in B2 does the symmetric change; a key in neither ghost list
\* changes no capacity.
C24_AdaptationStep ==
    [][(policy = "ARC" /\ op'.name \in {"put", "get"}) =>
        LET cap1 == arc.lruPart_.capacity_
            cap2 == arc.lfuPart_.capacity_
            moved == IF op'.key \in ARCB1 THEN IF cap2 > 0 THEN 1 ELSE 0
                     ELSE IF op'.key \in ARCB2 THEN IF cap1 > 0 THEN 0 - 1 ELSE 0
                     ELSE 0
        IN  /\ arc'.lruPart_.capacity_ = cap1 + moved
            /\ arc'.lfuPart_.capacity_ = cap2 - moved]_vars

\* a get found its key in B1 of an ARCCache(1): the ghost is gone and the
\* capacities are (2, 0), one unit having moved from the LFU half at this
\* or at an earlier B1 hit
C24_Witness ==
    /\ policy = "ARC" /\ arc.capacity_ = 1
    /\ op.name = "get" /\ ghostHit = "B1" /\ op.key \notin ARCB1
    /\ arc.lruPart_.capacity_ = 2 /\ arc.lfuPart_.capacity_ = 0

\* C22: the number of keys in the ghost map B1 of the LRU half never exceeds
\* the ghost capacity, because an eviction into a full ghost list first
\* removes the oldest ghost.  ghostCapacity_ is never given a value, so the
\* bound is stated for each call: a put or get that starts with ghosts in B1
\* and whose evictions find the ghost list full (ghostCache_.size() >=
\* ghostCapacity_ holds, as it does for every ghostCapacity_ from 1 to |B1|)
\* leaves B1 no larger than it was.
C22_FullGhostDoesNotGrow ==
    [][(/\ policy = "ARC" /\ ARCB1 # {}
        /\ \/ op'.name = "put" /\ arc' = ARCPut(arc, op'.key, op'.value, TRUE)
           \/ op'.name = "get" /\ arc' = ARCGet(arc, op'.key, TRUE).a)
          => Cardinality(DOMAIN arc'.lruPart_.ghostCache_) <= Cardinality(ARCB1)]_vars

\* C25: LRUKCache under concurrent callers: when no call on key k is in
\* flight, n calls (get or put) on k have returned, n < k_, and the history
\* entry of k was never evicted or removed, the history holds the count n
\* for k: no access is lost when two threads access the same key at once.
C25_NoAccessLost ==
    policy = "LRUKThreads" =>
        \A k \in ThreadKeys :
            (LRUKCalling(k) = {} /\ completed[k].kept /\ completed[k].n < lruk.k_)
                => LRUKHistoryCount(k) = completed[k].n

\* the maps of the LRU half point to linked nodes, one per key, that carry
\* the data recorded for the key
ARCMapsMatchNodes ==
    policy = "ARC" =>
        LET c == arc.lruPart_
            Held(h) == {i \in 1..Len(c.mainList) : c.mainList[i].held = h}
        IN  /\ \A k \in DOMAIN c.mainCache_ :
                  \E i \in Held("main") :
                      /\ c.mainList[i].key = k /\ ARCData(c.mainList[i]) = c.mainCache_[k]
                      /\ \A j \in Held("main") : c.mainList[j].key = k => j = i
            /\ \A k \in DOMAIN c.ghostCache_ :
                  \E i \in Held("ghost") :
                      /\ c.mainList[i].key = k /\ ARCData(c.mainList[i]) = c.ghostCache_[k]
                      /\ \A j \in Held("ghost") : c.mainList[j].key = k => j = i
            /\ \A i \in Held("main") : c.mainList[i].key \in DOMAIN c.mainCache_
            /\ \A i \in Held("ghost") : c.mainList[i].key \in DOMAIN c.ghostCache_

Init == InitLRU \/ InitLFU \/ InitLRUK \/ InitARC
Next == NextLRU \/ NextLFU \/ NextLRUK \/ NextARC
Spec == Init /\ [][Next]_vars
====
